---------------------------- MODULE Spec2Model ----------------------------
(***************************************************************************)
(* Model of pykeen.nn.functional: the functional forms of the DistMult,    *)
(* ComplEx and ConvE interaction functions and the cuDNN-error wrapper.    *)
(*                                                                         *)
(* A tensor is a record [shape, data]: shape is the sequence of its axis   *)
(* sizes, data its entries in row-major (C-contiguous) order, which is the *)
(* layout torch's view / repeat / cat act on.  Entries are integers.       *)
(* A failed call is a record [error |-> <message>].                        *)
(***************************************************************************)
EXTENDS Integers, Sequences, FiniteSets, TLC

VARIABLES
    h, r, t,      \* the tensors h, r, t of the running call (rebound by conve_interaction)
    args,         \* the arguments conve_interaction was called with
    params,       \* the layers and sizes conve_interaction was called with
    pc,           \* the position of the running call
    res,          \* the values the einsum scorers returned, by call
    x,            \* the local x of conve_interaction
    log,          \* the layers conve_interaction has applied, in order
    pending,      \* the error in flight, raised inside conve_interaction
    outcome,      \* what the caller of the wrapped conve_interaction receives
    classified,   \* what is_cudnn_error answered, when it was asked
    attempts      \* how many times the wrapper called conve_interaction

vars == <<h, r, t, args, params, pc, res, x, log, pending, outcome, classified, attempts>>

None == [none |-> TRUE]

(***************************************************************************)
(* Bounds of the model.                                                    *)
(***************************************************************************)
MaxBatch == 2
MaxCand == 2
HalfDim == 2
MaxSeed == 1
MaxShift == 1

EmbDim == 2 * HalfDim

(***************************************************************************)
(* Row-major tensors.                                                      *)
(***************************************************************************)
Range(s) == {s[a] : a \in DOMAIN s}

RECURSIVE Prod(_)
Prod(s) == IF s = <<>> THEN 1 ELSE Head(s) * Prod(Tail(s))

RECURSIVE SeqSum(_)
SeqSum(s) == IF s = <<>> THEN 0 ELSE Head(s) + SeqSum(Tail(s))

Max(S) == CHOOSE m \in S : \A n \in S : n <= m

Rank(a) == Len(a.shape)

Numel(a) == Prod(a.shape)

\* the number of entries one step along axis ax skips
Stride(shape, ax) == Prod(SubSeq(shape, ax + 1, Len(shape)))

\* the multi-index (0-based entries) of the 0-based flat position p
Unravel(p, shape) == [ax \in 1..Len(shape) |-> (p \div Stride(shape, ax)) % shape[ax]]

\* the 0-based flat position of multi-index idx
RECURSIVE RavelFrom(_, _, _, _)
RavelFrom(idx, shape, ax, acc) ==
    IF ax > Len(shape) THEN acc
    ELSE RavelFrom(idx, shape, ax + 1, acc * shape[ax] + idx[ax])

Ravel(idx, shape) == RavelFrom(idx, shape, 1, 0)

At(a, idx) == a.data[Ravel(idx, a.shape) + 1]

\* the tensor of the given shape whose entry at multi-index idx is F(idx)
Mk(shape, F(_)) ==
    LET st == [ax \in 1..Len(shape) |-> Stride(shape, ax)]
    IN  [shape |-> shape,
         data  |-> [p \in 1..Prod(shape) |->
                      F([ax \in 1..Len(shape) |-> ((p - 1) \div st[ax]) % shape[ax]])]]

IsError(a) == "error" \in DOMAIN a

IsTensor(a) == "shape" \in DOMAIN a

Error(msg) == [error |-> msg]

\* Body applied to the value of v, which is computed once
Force(v, Body(_)) == CHOOSE y \in {Body(e) : e \in {v}} : TRUE


(***************************************************************************)
(* The tensor operations conve_interaction uses, as torch defines them.    *)
(* Axes are counted from 0, as in the source.                              *)
(***************************************************************************)
\* a.unsqueeze(dim): a new axis of size 1 at position dim
unsqueeze(a0, dim) ==
    Force(a0, LAMBDA a :
        [shape |-> SubSeq(a.shape, 1, dim) \o <<1>> \o SubSeq(a.shape, dim + 1, Rank(a)),
         data  |-> a.data])

\* a.repeat(*reps): a tiled reps[ax] times along each axis
repeat(a0, reps) ==
    Force(a0, LAMBDA a :
        Mk([ax \in 1..Rank(a) |-> a.shape[ax] * reps[ax]],
           LAMBDA idx : At(a, [ax \in 1..Rank(a) |-> idx[ax] % a.shape[ax]])))

\* a.view(*shape): the same entries in the same order under a new shape; one
\* size may be -1 and is inferred
view(a0, shape) ==
    Force(a0, LAMBDA a :
        LET known == Prod([ax \in 1..Len(shape) |-> IF shape[ax] = -1 THEN 1 ELSE shape[ax]])
            full  == [ax \in 1..Len(shape) |->
                        IF shape[ax] = -1 THEN Numel(a) \div known ELSE shape[ax]]
        IN  IF Prod(full) # Numel(a) THEN Error("view: shape is invalid for input size")
            ELSE [shape |-> full, data |-> a.data])

\* torch.cat([a, b], dim)
cat(a0, b0, dim) ==
    Force(<<a0, b0>>, LAMBDA ab :
        LET a == ab[1]
            b == ab[2]
        IN  Mk([a.shape EXCEPT ![dim + 1] = @ + b.shape[dim + 1]],
               LAMBDA idx : IF idx[dim + 1] < a.shape[dim + 1] THEN At(a, idx)
                            ELSE At(b, [idx EXCEPT ![dim + 1] = @ - a.shape[dim + 1]])))

\* a.transpose(-1, -2)
transpose_last(a0) ==
    Force(a0, LAMBDA a :
        LET n == Rank(a)
        IN  Mk([a.shape EXCEPT ![n] = a.shape[n - 1], ![n - 1] = a.shape[n]],
               LAMBDA idx : At(a, [idx EXCEPT ![n] = idx[n - 1], ![n - 1] = idx[n]])))

\* idx cut down to a tensor that is broadcast: 0 along its axes of size 1
Bcast(a, idx) == [ax \in 1..Rank(a) |-> IF a.shape[ax] = 1 THEN 0 ELSE idx[ax]]

\* a @ b for two tensors of the same rank: a matrix product over the last two
\* axes, the leading axes broadcast
matmul(a0, b0) ==
    Force(<<a0, b0>>, LAMBDA ab :
    LET a == ab[1]
        b == ab[2]
        n == Rank(a)
        shape == [ax \in 1..n |->
                    IF ax = n THEN b.shape[n]
                    ELSE IF ax = n - 1 THEN a.shape[n - 1]
                    ELSE Max({a.shape[ax], b.shape[ax]})]
    IN  Mk(shape, LAMBDA idx :
            SeqSum([k \in 1..a.shape[n] |->
                At(a, [ax \in 1..n |->
                        IF ax = n THEN k - 1
                        ELSE IF ax = n - 1 THEN idx[ax]
                        ELSE IF a.shape[ax] = 1 THEN 0 ELSE idx[ax]])
                * At(b, [ax \in 1..n |->
                        IF ax = n THEN idx[n]
                        ELSE IF ax = n - 1 THEN k - 1
                        ELSE IF b.shape[ax] = 1 THEN 0 ELSE idx[ax]])])))

\* a.squeeze(dim=-2): the last but one axis dropped when its size is 1
squeeze_m2(a0) ==
    Force(a0, LAMBDA a :
        LET n == Rank(a)
        IN  IF a.shape[n - 1] # 1 THEN a
            ELSE [shape |-> SubSeq(a.shape, 1, n - 2) \o <<a.shape[n]>>, data |-> a.data])

\* a + b for two tensors of the same rank, axes of size 1 broadcast
add(a0, b0) ==
    Force(<<a0, b0>>, LAMBDA ab :
        LET a == ab[1]
            b == ab[2]
        IN  Mk([ax \in 1..Rank(a) |-> Max({a.shape[ax], b.shape[ax]})],
               LAMBDA idx : At(a, Bcast(a, idx)) + At(b, Bcast(b, idx))))

\* f applied to every entry
Map(a0, F(_)) ==
    Force(a0, LAMBDA a : [shape |-> a.shape, data |-> [p \in DOMAIN a.data |-> F(a.data[p])]])

(***************************************************************************)
(* torch.einsum for a comma-separated list of operand terms and an output  *)
(* term.  A term is a sequence of one-character axis labels.  The call     *)
(* fails when an operand's rank differs from the length of its term, when  *)
(* the output names a label no operand carries, or when two axes with the  *)
(* same label differ in size and neither is 1; an axis of size 1 is        *)
(* broadcast.  Labels absent from the output are summed over.              *)
(***************************************************************************)
TermLabels(terms) == UNION {Range(terms[i]) : i \in DOMAIN terms}

TermAxes(terms, l) ==
    {q \in (DOMAIN terms) \X (1..3) : q[2] <= Len(terms[q[1]]) /\ terms[q[1]][q[2]] = l}

LabelSize(terms, ops, l) == Max({ops[q[1]].shape[q[2]] : q \in TermAxes(terms, l)})

PosOf(seq, l) == CHOOSE a \in DOMAIN seq : seq[a] = l

RECURSIVE SetToSeq(_)
SetToSeq(S) ==
    IF S = {} THEN <<>>
    ELSE LET e == CHOOSE e \in S : TRUE IN <<e>> \o SetToSeq(S \ {e})

SumOver(s, F(_)) == SeqSum([n \in 1..Len(s) |-> F(s[n])])

EinsumOf(terms, ops, out) ==
    IF \E i \in DOMAIN terms : Len(terms[i]) # Rank(ops[i])
    THEN Error("einsum: subscripts do not match the operand's dimensions")
    ELSE IF \E a \in DOMAIN out : out[a] \notin TermLabels(terms)
    THEN Error("einsum: output subscript does not appear in any input operand")
    ELSE IF \E l \in TermLabels(terms) : \E q \in TermAxes(terms, l) :
                ops[q[1]].shape[q[2]] \notin {1, LabelSize(terms, ops, l)}
    THEN Error("einsum: operands do not broadcast")
    ELSE
    Force(
      [size   |-> [l \in TermLabels(terms) |-> LabelSize(terms, ops, l)],
       summed |-> SetToSeq(TermLabels(terms) \ Range(out))],
      LAMBDA pre :
    Force(
      \* the assignments of an index to every summed label, and for every
      \* axis of every operand where its index comes from: 0 for a broadcast
      \* axis, n > 0 for the n-th output axis, -n for the n-th summed label
      [assignments |->
          SetToSeq({f \in [DOMAIN pre.summed ->
                              0..(Max({pre.size[l] : l \in DOMAIN pre.size}) - 1)] :
                      \A n \in DOMAIN pre.summed : f[n] < pre.size[pre.summed[n]]}),
       source |->
          [i \in DOMAIN terms |-> [ax \in 1..Len(terms[i]) |->
              IF ops[i].shape[ax] = 1 THEN 0
              ELSE IF terms[i][ax] \in Range(out) THEN PosOf(out, terms[i][ax])
              ELSE 0 - PosOf(pre.summed, terms[i][ax])]]],
      LAMBDA plan :
        LET Entry(i, idx, f) ==
                At(ops[i], [ax \in 1..Len(terms[i]) |->
                    IF plan.source[i][ax] = 0 THEN 0
                    ELSE IF plan.source[i][ax] > 0 THEN idx[plan.source[i][ax]]
                    ELSE f[0 - plan.source[i][ax]]])
            Term3(idx, f) == Entry(1, idx, f) * Entry(2, idx, f) * Entry(3, idx, f)
        IN  Mk([a \in DOMAIN out |-> pre.size[out[a]]],
               LAMBDA idx : SumOver(plan.assignments, LAMBDA f : Term3(idx, f)))))

Einsum(terms, ops, out) ==
    Force(<<terms, ops>>, LAMBDA v : EinsumOf(v[1], v[2], out))

(***************************************************************************)
(* utils.normalize_for_einsum: the axis term of one tensor.  A plain       *)
(* per-batch embedding (rank 2) gets "bd", a tensor with a candidate axis  *)
(* gets "b<symbol>d"; the tensor is handed on as it is, a batch axis of    *)
(* size 1 being left to the contraction's broadcast.                       *)
(***************************************************************************)
normalize_for_einsum(a, batch_size, symbol) ==
    <<IF Rank(a) = 2 THEN <<"b", "d">> ELSE <<"b", symbol, "d">>, a>>

(***************************************************************************)
(* utils.split_complex: the real and the imaginary half of the trailing    *)
(* axis; fails when its size is odd.                                       *)
(***************************************************************************)
split_complex(a0) ==
    Force(a0, LAMBDA a :
        LET n == a.shape[Rank(a)]
            half == [a.shape EXCEPT ![Rank(a)] = n \div 2]
        IN  IF n % 2 # 0 THEN Error("split_complex: odd trailing dimension")
            ELSE [re |-> Mk(half, LAMBDA idx : At(a, idx)),
                  im |-> Mk(half, LAMBDA idx : At(a, [idx EXCEPT ![Rank(a)] = @ + n \div 2]))])

\* the result of max(h.shape[0], r.shape[0], t.shape[0]) and of the three
\* normalize_for_einsum calls, as <<h, h_term, r, r_term, t, t_term>>
normalize_terms_for_einsum(hh, rr, tt) ==
    LET batch_size == Max({hh.shape[1], rr.shape[1], tt.shape[1]})
        hn == normalize_for_einsum(hh, batch_size, "h")
        rn == normalize_for_einsum(rr, batch_size, "r")
        tn == normalize_for_einsum(tt, batch_size, "t")
    IN  <<hn[2], hn[1], rn[2], rn[1], tn[2], tn[1]>>

\* the fixed output pattern of both einsum calls
OutTerm == <<"b", "h", "r", "t">>

distmult_interaction(hh, rr, tt) ==
    LET n == normalize_terms_for_einsum(hh, rr, tt)
    IN  Einsum(<<n[2], n[4], n[6]>>, <<n[1], n[3], n[5]>>, OutTerm)

\* the list with Im(t) in place of Re(t) in its first entry
ComplexCombosImFirst ==
    <<<<"re", "re", "im">>, <<"re", "im", "im">>, <<"im", "re", "im">>, <<"im", "im", "re">>>>

\* the list with Im(t) in place of Re(t) in its last entry
ComplexCombosImLast ==
    <<<<"re", "re", "re">>, <<"re", "im", "im">>, <<"im", "re", "im">>, <<"im", "im", "im">>>>

\* the (hh, rr, tt) list of complex_interaction: which half of h, r, t each
\* of the four contractions takes 
ComplexCombos ==
    <<<<"re", "re", "re">>, <<"re", "im", "im">>, <<"im", "re", "im">>, <<"im", "im", "re">>>>

\* the four einsum results complex_interaction sums, in the order of the list
complex_terms(hh, rr, tt) ==
    LET n == normalize_terms_for_einsum(hh, rr, tt)
        hs == split_complex(n[1])
        rs == split_complex(n[3])
        ts == split_complex(n[5])
    IN  IF IsError(hs) \/ IsError(rs) \/ IsError(ts)
        THEN <<Error("split_complex: odd trailing dimension")>>
        ELSE [c \in 1..4 |->
                Einsum(<<n[2], n[4], n[6]>>,
                       <<hs[ComplexCombos[c][1]], rs[ComplexCombos[c][2]],
                         ts[ComplexCombos[c][3]]>>,
                       OutTerm)]

\* tensor + tensor of the same shape
TensorAdd(a0, b0) ==
    Force(<<a0, b0>>, LAMBDA ab :
        [shape |-> ab[1].shape,
         data  |-> [p \in DOMAIN ab[1].data |-> ab[1].data[p] + ab[2].data[p]]])

\* Python's sum() over the einsum results: 0 + e1 + e2 + e3 + e4; the first
\* failing einsum ends the call
PySum(es0) ==
    Force(es0, LAMBDA es :
        IF \E c \in DOMAIN es : IsError(es[c])
        THEN es[CHOOSE c \in DOMAIN es : IsError(es[c]) /\ \A c2 \in 1..(c - 1) : ~IsError(es[c2])]
        ELSE TensorAdd(TensorAdd(TensorAdd(es[1], es[2]), es[3]), es[4]))

\* one call of complex_interaction: the einsum results it summed and its result
complex_call(hh, rr, tt) ==
    Force(complex_terms(hh, rr, tt), LAMBDA es :
        \* sum() pulls the einsum calls one by one: none runs after one failed
        LET ran == {c \in DOMAIN es : \A c2 \in 1..(c - 1) : ~IsError(es[c2])}
        IN  [score |-> PySum(es), terms |-> [c \in ran |-> es[c]]])

complex_interaction(hh, rr, tt) == complex_call(hh, rr, tt).score


(***************************************************************************)
(* The inputs of the scorers.  A tensor is valid when its rank is 2        *)
(* (batch, dim) or 3 (batch, k, dim) and its batch axis is the batch size  *)
(* or 1.  Entries are generated from a seed: seed 0 is the all-ones        *)
(* tensor, the other seeds give entries in -1..2 that differ from row to   *)
(* row and from h to r to t.                                               *)
(***************************************************************************)
SymbolOffset(symbol) ==
    CASE symbol = "h" -> 0 [] symbol = "r" -> 1 [] symbol = "t" -> 2 [] symbol = "t_bias" -> 3

Gen(symbol, seed, p) ==
    IF seed = 0 THEN 1
    ELSE ((p * (seed + SymbolOffset(symbol)) + p \div 3 + seed + SymbolOffset(symbol)) % 4) - 1

MkInput(symbol, shape, seed, zeroIm) ==
    Mk(shape, LAMBDA idx :
        IF zeroIm /\ idx[Len(shape)] >= shape[Len(shape)] \div 2 THEN 0
        ELSE Gen(symbol, seed, Ravel(idx, shape)))

InputShapes(B) ==
    {<<b, EmbDim>> : b \in {1, B}}
        \cup {<<q[1], q[2], EmbDim>> : q \in {1, B} \X (1..MaxCand)}

\* the size of the candidate axis of a, 1 when it has none
Cand(a) == IF Rank(a) = 3 THEN a.shape[2] ELSE 1

\* a[b, i, d], rank 2 read as a single candidate; a batch axis of size 1 is
\* read at row 0
Elem(a, b, i, d) ==
    LET bb == IF a.shape[1] = 1 THEN 0 ELSE b
    IN  IF Rank(a) = 3 THEN At(a, <<bb, i, d>>) ELSE At(a, <<bb, d>>)

\* a with the imaginary half of its trailing axis negated
NegIm(a) ==
    Mk(a.shape, LAMBDA idx :
        IF idx[Rank(a)] >= a.shape[Rank(a)] \div 2 THEN 0 - At(a, idx) ELSE At(a, idx))

\* the calls a caller makes on one triple, in this order
Calls == <<"distmult", "complex", "distmult_re", "complex_negt">>

Called(c) == res[c] # None

InitScorers ==
    /\ \E seed \in 0..MaxSeed, zeroIm \in BOOLEAN :
       \E sh \in InputShapes(MaxBatch), sr \in InputShapes(MaxBatch),
          st \in InputShapes(MaxBatch) :
          /\ h = MkInput("h", sh, seed, zeroIm)
          /\ r = MkInput("r", sr, seed, zeroIm)
          /\ t = MkInput("t", st, seed, zeroIm)
    /\ res = [c \in Range(Calls) |-> None]
    /\ pc = "scorers"
    /\ args = None /\ params = None /\ x = None /\ log = <<>>
    /\ pending = None /\ outcome = None /\ classified = None /\ attempts = 0

\* a caller scores the triple with DistMult
CallDistmult ==
    /\ pc = "scorers" /\ ~Called("distmult")
    /\ res' = [res EXCEPT !["distmult"] = [score |-> distmult_interaction(h, r, t)]]
    /\ UNCHANGED <<h, r, t, args, params, pc, x, log, pending, outcome, classified, attempts>>

\* a caller scores the triple with ComplEx; terms is what the four einsum
\* calls inside returned
CallComplex ==
    /\ pc = "scorers" /\ Called("distmult") /\ ~Called("complex")
    /\ res' = [res EXCEPT !["complex"] = complex_call(h, r, t)]
    /\ UNCHANGED <<h, r, t, args, params, pc, x, log, pending, outcome, classified, attempts>>

\* a caller scores the real halves of the triple with DistMult
CallDistmultRe ==
    /\ pc = "scorers" /\ Called("complex") /\ ~Called("distmult_re")
    /\ res' = [res EXCEPT !["distmult_re"] =
                  [score |-> distmult_interaction(split_complex(h).re, split_complex(r).re,
                                                  split_complex(t).re)]]
    /\ UNCHANGED <<h, r, t, args, params, pc, x, log, pending, outcome, classified, attempts>>

\* a caller scores the triple with ComplEx after negating Im(t)
CallComplexNegT ==
    /\ pc = "scorers" /\ Called("distmult_re") /\ ~Called("complex_negt")
    /\ res' = [res EXCEPT !["complex_negt"] = complex_call(h, r, NegIm(t))]
    /\ UNCHANGED <<h, r, t, args, params, pc, x, log, pending, outcome, classified, attempts>>

NextScorers == CallDistmult \/ CallComplex \/ CallDistmultRe \/ CallComplexNegT

Spec == InitScorers /\ [][NextScorers]_vars


(***************************************************************************)
(* The layers conve_interaction is handed.  They are torch modules, opaque *)
(* to this code; each stands here as one fixed function that acts on every *)
(* row of its input on its own.  Dropout is the identity in evaluation     *)
(* mode and a fixed mask with rescaling in training mode.                  *)
(***************************************************************************)
\* bn0, bn1, bn2: an affine map with the layer's learned scale and shift
bn0(a) == Map(a, LAMBDA v : 2 * v + 1)

bn1(a) == Map(a, LAMBDA v : 3 * v - 1)

bn2(a) == Map(a, LAMBDA v : v + 2)

\* nn.Dropout: in training, every third entry of a row is zeroed and the
\* others are doubled
dropout(a0, training) ==
    Force(a0, LAMBDA a :
        IF ~training THEN a
        ELSE [shape |-> a.shape,
              data  |-> [p \in DOMAIN a.data |->
                           IF ((p - 1) % (Numel(a) \div a.shape[1])) % 3 = 2 THEN 0
                           ELSE 2 * a.data[p]]])

inp_drop(a, training) == dropout(a, training)

hidden_drop(a, training) == dropout(a, training)

\* nn.Dropout2d: in training, the odd channels are zeroed and the even ones
\* doubled
feature_map_drop(a0, training) ==
    Force(a0, LAMBDA a :
        IF ~training THEN a
        ELSE Mk(a.shape, LAMBDA idx : IF idx[2] % 2 = 1 THEN 0 ELSE 2 * At(a, idx)))

\* the number of output channels and the kernel height of conv1 (its kernel
\* width is 1)
ConvChannels == 2

KernelHeight == 2

\* nn.Conv2d: (N, C, 2H, W) -> (N, ConvChannels, 2H - KernelHeight + 1, W)
conv1(a0) ==
    Force(a0, LAMBDA a :
    Mk(<<a.shape[1], ConvChannels, a.shape[3] - KernelHeight + 1, a.shape[4]>>,
       LAMBDA idx :
          idx[2] + SeqSum([q \in 1..(a.shape[2] * KernelHeight) |->
             LET c  == (q - 1) \div KernelHeight
                 dy == (q - 1) % KernelHeight
             IN  (1 + ((idx[2] + c + 2 * dy) % 3))
                    * At(a, <<idx[1], c, idx[3] + dy, idx[4]>>)])))

\* the activation: ReLU
activation(a) == Map(a, LAMBDA v : IF v < 0 THEN 0 ELSE v)

\* nn.Linear: (N, num_in_features) -> (N, embedding_dim)
fc(a0, embedding_dim) ==
    Force(a0, LAMBDA a :
    Mk(<<a.shape[1], embedding_dim>>,
       LAMBDA idx :
          idx[2] + SeqSum([f \in 1..a.shape[2] |->
                              (((idx[2] + 2 * f) % 3) - 1) * At(a, <<idx[1], f - 1>>)])))

(***************************************************************************)
(* conve_interaction, statement by statement.  p holds the sizes and the   *)
(* layers of the call: input_channels, embedding_height, embedding_width,  *)
(* num_in_features, embedding_dim, whether bn0, bn1, bn2 are given (not    *)
(* None), and the mode of the dropout layers.                              *)
(***************************************************************************)
\* lines 72-81 with h expanded along the axis of r: unsqueeze(dim=1) and
\* repeat(..., num_relations, 1, 1)
conve_stack_wrong_axis(hh, rr, tt, p) ==
    LET batch_size    == Max({hh.shape[1], rr.shape[1], tt.shape[1]})
        num_heads     == hh.shape[2]
        num_relations == rr.shape[2]
        h2 == repeat(unsqueeze(hh, 1),
                     <<IF hh.shape[1] = batch_size THEN 1 ELSE batch_size, num_relations, 1, 1>>)
        r2 == repeat(unsqueeze(rr, 1),
                     <<IF rr.shape[1] = batch_size THEN 1 ELSE batch_size, num_heads, 1, 1>>)
        image == <<-1, p.input_channels, p.embedding_height, p.embedding_width>>
    IN  [h |-> h2, r |-> r2, x |-> cat(view(h2, image), view(r2, image), 2)]

\* lines 72-81: h over the relations, r over the heads, both as images,
\* stacked along the height axis: [h, r, x] after line 81
conve_stack(hh, rr, tt, p) ==
    LET batch_size    == Max({hh.shape[1], rr.shape[1], tt.shape[1]})
        num_heads     == hh.shape[2]
        num_relations == rr.shape[2]
        h2 == repeat(unsqueeze(hh, 2),
                     <<IF hh.shape[1] = batch_size THEN 1 ELSE batch_size, 1, num_relations, 1>>)
        r2 == repeat(unsqueeze(rr, 1),
                     <<IF rr.shape[1] = batch_size THEN 1 ELSE batch_size, num_heads, 1, 1>>)
        image == <<-1, p.input_channels, p.embedding_height, p.embedding_width>>
    IN  [h |-> h2, r |-> r2, x |-> cat(view(h2, image), view(r2, image), 2)]

\* line 100
flatten(a, p) == view(a, <<-1, p.num_in_features>>)

\* lines 109-117 with the bias added a second time
conve_score_bias_twice(a, xx, tt, t_bias, p) ==
    LET batch_size    == Max({a.h.shape[1], a.r.shape[1], a.t.shape[1]})
        num_heads     == a.h.shape[2]
        num_relations == a.r.shape[2]
        num_tails     == a.t.shape[2]
        x1 == view(xx, <<batch_size, num_heads, num_relations, 1, p.embedding_dim>>)
        t2 == transpose_last(view(tt, <<tt.shape[1], 1, 1, num_tails, p.embedding_dim>>))
        x2 == squeeze_m2(matmul(x1, t2))
        bias == view(t_bias, <<t2.shape[1], 1, 1, num_tails>>)
    IN  [t |-> t2, x |-> add(add(x2, bias), bias)]

\* lines 109-117: the product with the tails and the bias: [t, x] after
\* line 117; sizes are those bound at lines 67-70 from the arguments a
conve_score(a, xx, tt, t_bias, p) ==
    LET batch_size    == Max({a.h.shape[1], a.r.shape[1], a.t.shape[1]})
        num_heads     == a.h.shape[2]
        num_relations == a.r.shape[2]
        num_tails     == a.t.shape[2]
        x1 == view(xx, <<batch_size, num_heads, num_relations, 1, p.embedding_dim>>)
        t2 == transpose_last(view(tt, <<tt.shape[1], 1, 1, num_tails, p.embedding_dim>>))
        x2 == squeeze_m2(matmul(x1, t2))
    IN  [t |-> t2, x |-> add(x2, view(t_bias, <<t2.shape[1], 1, 1, num_tails>>))]

\* lines 83-106 on an image batch
conve_features(x0, p) ==
    LET x1 == IF p.bn0 THEN bn0(x0) ELSE x0
        x2 == inp_drop(x1, p.training)
        x3 == conv1(x2)
        x4 == IF p.bn1 THEN bn1(x3) ELSE x3
        x5 == activation(x4)
        x6 == feature_map_drop(x5, p.training)
        x7 == flatten(x6, p)
        x8 == fc(x7, p.embedding_dim)
        x9 == hidden_drop(x8, p.training)
        x10 == IF p.bn2 THEN bn2(x9) ELSE x9
    IN  activation(x10)

\* the value a call of conve_interaction that raises nothing returns
conve_interaction(a, p) ==
    conve_score(a, conve_features(conve_stack(a.h, a.r, a.t, p).x, p), a.t, a.t_bias, p).x

(***************************************************************************)
(* _add_cuda_warning: the wrapper around conve_interaction.                *)
(***************************************************************************)
CudnnMessage == "cuDNN error: CUDNN_STATUS_NOT_SUPPORTED"

\* the errors a layer or a tensor operation may raise: runtime errors of the
\* known driver fault and of another kind, and errors that are no
\* RuntimeError; each is one object (id 1) without a cause
Raisable ==
    {[type |-> ty, msg |-> m, id |-> 1, cause |-> None] :
        ty \in {"RuntimeError", "ValueError"}, m \in {CudnnMessage, "size mismatch"}}

\* utils.is_cudnn_error: the classifier of known driver faults, by message
is_cudnn_error(e) == e.msg = CudnnMessage

\* the RuntimeError lines 35-40 build: a new object whose cause is e
CudaWarning(e) ==
    [type  |-> "RuntimeError",
     msg   |-> "This code crash might have been caused by a CUDA bug; to avoid this error, the batch size has to be reduced.",
     id    |-> e.id + 1,
     cause |-> e]

\* the except clause with its test inverted: "if is_cudnn_error(e): raise e"
wrapped_except_inverted(e) ==
    IF e.type # "RuntimeError"
    THEN [raises |-> e, classified |-> None]
    ELSE IF is_cudnn_error(e)
    THEN [raises |-> e, classified |-> [known |-> TRUE]]
    ELSE [raises |-> CudaWarning(e), classified |-> [known |-> FALSE]]

\* lines 32-40, for an error e raised by func: what leaves the wrapper, and
\* what the classifier answered when it was asked
wrapped_except(e) ==
    IF e.type # "RuntimeError"
    THEN [raises |-> e, classified |-> None]
    ELSE IF ~is_cudnn_error(e)
    THEN [raises |-> e, classified |-> [known |-> FALSE]]
    ELSE [raises |-> CudaWarning(e), classified |-> [known |-> TRUE]]

(***************************************************************************)
(* One call of the wrapped conve_interaction.                              *)
(***************************************************************************)
\* (input_channels, embedding_height, embedding_width) with
\* input_channels * embedding_height * embedding_width = embedding_dim
Geometries == {<<1, 2, HalfDim>>, <<2, 1, HalfDim>>}

ConveParams(g, b0, b1, b2, training) ==
    [input_channels   |-> g[1],
     embedding_height |-> g[2],
     embedding_width  |-> g[3],
     num_in_features  |-> ConvChannels * (2 * g[2] - KernelHeight + 1) * g[3],
     embedding_dim    |-> EmbDim,
     bn0 |-> b0, bn1 |-> b1, bn2 |-> b2,
     training |-> training]

\* the arguments h, r, t, t_bias of a call: h, r, t carry their candidate
\* axis, t_bias has one entry per tail
ConveArgs(bh, br, bt, nh, nr, nt) ==
    [h |-> MkInput("h", <<bh, nh, EmbDim>>, 1, FALSE),
     r |-> MkInput("r", <<br, nr, EmbDim>>, 1, FALSE),
     t |-> MkInput("t", <<bt, nt, EmbDim>>, 1, FALSE),
     t_bias |-> MkInput("t_bias", <<bt, nt>>, 1, FALSE)]

InitConvE ==
    /\ \E bh \in {1, MaxBatch}, br \in {1, MaxBatch}, bt \in {1, MaxBatch},
          n \in 1..MaxCand :
          args = ConveArgs(bh, br, bt, n, n, n)
    /\ \E g \in Geometries, b0 \in BOOLEAN, b1 \in BOOLEAN, b2 \in BOOLEAN,
          training \in BOOLEAN :
          params = ConveParams(g, b0, b1, b2, training)
    /\ pc = "call"
    /\ h = None /\ r = None /\ t = None /\ x = None /\ log = <<>>
    /\ res = None /\ pending = None /\ outcome = None /\ classified = None
    /\ attempts = 0

\* line 31: the wrapper calls func(*args, **kwargs)
Call ==
    /\ pc = "call"
    /\ attempts' = attempts + 1
    /\ h' = args.h /\ r' = args.r /\ t' = args.t
    /\ pc' = "stack"
    /\ UNCHANGED <<args, params, res, x, log, pending, outcome, classified>>

\* lines 66-81
Stack ==
    /\ pc = "stack"
    /\ LET s == conve_stack(h, r, t, params)
       IN  h' = s.h /\ r' = s.r /\ x' = s.x
    /\ pc' = "bn0"
    /\ UNCHANGED <<t, args, params, res, log, pending, outcome, classified, attempts>>

\* lines 84-85
ApplyBn0 ==
    /\ pc = "bn0"
    /\ IF params.bn0 THEN x' = bn0(x) /\ log' = Append(log, "bn0")
       ELSE UNCHANGED <<x, log>>
    /\ pc' = "inp_drop"
    /\ UNCHANGED <<h, r, t, args, params, res, pending, outcome, classified, attempts>>

\* line 88
ApplyInpDrop ==
    /\ pc = "inp_drop"
    /\ x' = inp_drop(x, params.training) /\ log' = Append(log, "inp_drop")
    /\ pc' = "conv1"
    /\ UNCHANGED <<h, r, t, args, params, res, pending, outcome, classified, attempts>>

\* line 91
ApplyConv1 ==
    /\ pc = "conv1"
    /\ x' = conv1(x) /\ log' = Append(log, "conv1")
    /\ pc' = "bn1"
    /\ UNCHANGED <<h, r, t, args, params, res, pending, outcome, classified, attempts>>

\* lines 93-94
ApplyBn1 ==
    /\ pc = "bn1"
    /\ IF params.bn1 THEN x' = bn1(x) /\ log' = Append(log, "bn1")
       ELSE UNCHANGED <<x, log>>
    /\ pc' = "activation1"
    /\ UNCHANGED <<h, r, t, args, params, res, pending, outcome, classified, attempts>>

\* line 96
ApplyActivation1 ==
    /\ pc = "activation1"
    /\ x' = activation(x) /\ log' = Append(log, "activation")
    /\ pc' = "feature_map_drop"
    /\ UNCHANGED <<h, r, t, args, params, res, pending, outcome, classified, attempts>>

\* line 97
ApplyFeatureMapDrop ==
    /\ pc = "feature_map_drop"
    /\ x' = feature_map_drop(x, params.training) /\ log' = Append(log, "feature_map_drop")
    /\ pc' = "flatten"
    /\ UNCHANGED <<h, r, t, args, params, res, pending, outcome, classified, attempts>>

\* line 100
Flatten ==
    /\ pc = "flatten"
    /\ x' = flatten(x, params) /\ log' = Append(log, "flatten")
    /\ pc' = "fc"
    /\ UNCHANGED <<h, r, t, args, params, res, pending, outcome, classified, attempts>>

\* line 101
ApplyFc ==
    /\ pc = "fc"
    /\ x' = fc(x, params.embedding_dim) /\ log' = Append(log, "fc")
    /\ pc' = "hidden_drop"
    /\ UNCHANGED <<h, r, t, args, params, res, pending, outcome, classified, attempts>>

\* line 102
ApplyHiddenDrop ==
    /\ pc = "hidden_drop"
    /\ x' = hidden_drop(x, params.training) /\ log' = Append(log, "hidden_drop")
    /\ pc' = "bn2"
    /\ UNCHANGED <<h, r, t, args, params, res, pending, outcome, classified, attempts>>

\* lines 104-105 without the test "if bn2 is not None"
ApplyBn2Always ==
    /\ pc = "bn2"
    /\ x' = bn2(x) /\ log' = Append(log, "bn2")
    /\ pc' = "activation2"
    /\ UNCHANGED <<h, r, t, args, params, res, pending, outcome, classified, attempts>>

\* lines 104-105
ApplyBn2 ==
    /\ pc = "bn2"
    /\ IF params.bn2 THEN x' = bn2(x) /\ log' = Append(log, "bn2")
       ELSE UNCHANGED <<x, log>>
    /\ pc' = "activation2"
    /\ UNCHANGED <<h, r, t, args, params, res, pending, outcome, classified, attempts>>

\* line 106
ApplyActivation2 ==
    /\ pc = "activation2"
    /\ x' = activation(x) /\ log' = Append(log, "activation")
    /\ pc' = "score"
    /\ UNCHANGED <<h, r, t, args, params, res, pending, outcome, classified, attempts>>

\* lines 109-117
Score ==
    /\ pc = "score"
    /\ LET s == conve_score(args, x, t, args.t_bias, params)
       IN  t' = s.t /\ x' = s.x
    /\ pc' = "return"
    /\ UNCHANGED <<h, r, args, params, res, log, pending, outcome, classified, attempts>>

\* line 119 and line 31: x is returned through the wrapper to the caller
Return ==
    /\ pc = "return"
    /\ outcome' = [returns |-> x]
    /\ pc' = "done"
    /\ UNCHANGED <<h, r, t, args, params, res, x, log, pending, classified, attempts>>

\* the positions at which a statement of conve_interaction may raise
Running ==
    {"stack", "bn0", "inp_drop", "conv1", "bn1", "activation1", "feature_map_drop",
     "flatten", "fc", "hidden_drop", "bn2", "activation2", "score"}

\* the statement at pc raises e: the frame of conve_interaction, with its
\* arguments and locals, is unwound
Raise ==
    /\ pc \in Running
    /\ \E e \in Raisable : pending' = e
    /\ h' = None /\ r' = None /\ t' = None /\ x' = None /\ args' = None
    /\ pc' = "raised"
    /\ UNCHANGED <<params, res, log, outcome, classified, attempts>>

\* lines 32-40: the except clause of the wrapper, or the error passing it by
Except ==
    /\ pc = "raised"
    /\ outcome' = [raises |-> wrapped_except(pending).raises]
    /\ classified' = wrapped_except(pending).classified
    /\ pc' = "done"
    /\ UNCHANGED <<h, r, t, args, params, res, x, log, pending, attempts>>

NextConvE ==
    \/ Call \/ Stack \/ ApplyBn0 \/ ApplyInpDrop \/ ApplyConv1 \/ ApplyBn1
    \/ ApplyActivation1 \/ ApplyFeatureMapDrop \/ Flatten \/ ApplyFc \/ ApplyHiddenDrop
    \/ ApplyBn2 \/ ApplyActivation2 \/ Score \/ Return \/ Raise \/ Except

SpecConvE == InitConvE /\ [][NextConvE]_vars

(***************************************************************************)
(* Calls of conve_interaction that raise nothing, taken as one step each,  *)
(* over every combination of batch sizes and numbers of candidates.        *)
(***************************************************************************)
InitConvECalls ==
    /\ \E bh \in {1, MaxBatch}, br \in {1, MaxBatch}, bt \in {1, MaxBatch},
          nh \in 1..MaxCand, nr \in 1..MaxCand, nt \in 1..MaxCand :
          args = ConveArgs(bh, br, bt, nh, nr, nt)
    /\ \E g \in Geometries, bn \in BOOLEAN, training \in BOOLEAN :
          params = ConveParams(g, bn, bn, bn, training)
    /\ pc = "call"
    /\ h = None /\ r = None /\ t = None /\ x = None /\ log = <<>>
    /\ res = None /\ pending = None /\ outcome = None /\ classified = None
    /\ attempts = 0

\* lines 31 and 66-119
CallConvE ==
    /\ pc = "call"
    /\ attempts' = attempts + 1
    /\ outcome' = [returns |-> conve_interaction(args, params)]
    /\ pc' = "done"
    /\ UNCHANGED <<h, r, t, args, params, res, x, log, pending, classified>>

NextConvECalls == CallConvE

SpecConvECalls == InitConvECalls /\ [][NextConvECalls]_vars

(***************************************************************************)
(* Properties of the einsum scorers.                                       *)
(***************************************************************************)
BatchSize == Max({h.shape[1], r.shape[1], t.shape[1]})

\* the shape (batch, num_heads, num_relations, num_tails)
ScoreShape == <<BatchSize, Cand(h), Cand(r), Cand(t)>>

Cells == {c \in (0..(BatchSize - 1)) \X (0..(Cand(h) - 1)) \X (0..(Cand(r) - 1))
                    \X (0..(Cand(t) - 1)) : TRUE}

AllRank3 == Rank(h) = 3 /\ Rank(r) = 3 /\ Rank(t) = 3

ZeroImag(a) ==
    \A p \in DOMAIN a.data :
        Unravel(p - 1, a.shape)[Rank(a)] >= a.shape[Rank(a)] \div 2 => a.data[p] = 0

SumTo(n, F(_)) == SeqSum([d \in 1..n |-> F(d - 1)])

\* sum over d of h[b,i,d] * r[b,j,d] * t[b,k,d]
TrilinearCell(c) ==
    SumTo(EmbDim, LAMBDA d : Elem(h, c[1], c[2], d) * Elem(r, c[1], c[3], d) * Elem(t, c[1], c[4], d))

\* sum over the half dimension d of
\* Re(h)Re(r)Re(t) + Re(h)Im(r)Im(t) + Im(h)Re(r)Im(t) - Im(h)Im(r)Re(t)
HermitianCell(c) ==
    LET hre(d) == Elem(h, c[1], c[2], d)
        him(d) == Elem(h, c[1], c[2], d + HalfDim)
        rre(d) == Elem(r, c[1], c[3], d)
        rim(d) == Elem(r, c[1], c[3], d + HalfDim)
        tre(d) == Elem(t, c[1], c[4], d)
        tim(d) == Elem(t, c[1], c[4], d + HalfDim)
    IN  SumTo(HalfDim, LAMBDA d : hre(d) * rre(d) * tre(d) + hre(d) * rim(d) * tim(d)
                                    + him(d) * rre(d) * tim(d) - him(d) * rim(d) * tre(d))

\* C1: whenever complex_interaction returns a score tensor, each cell
\* (b, i, j, k) is the sum over the half dimension of Re(h)Re(r)Re(t)
\* + Re(h)Im(r)Im(t) + Im(h)Re(r)Im(t) - Im(h)Im(r)Re(t).
ComplexIsHermitian ==
    (Called("complex") /\ IsTensor(res["complex"].score)) =>
        \A c \in Cells : At(res["complex"].score, c) = HermitianCell(c)

\* C2: for all valid input shapes distmult_interaction and complex_interaction
\* return a tensor of shape (batch, num_heads, num_relations, num_tails), a
\* missing candidate axis counting 1: no call ends in an error.
ScorersReturnScoreShape ==
    /\ Called("distmult") =>
          IsTensor(res["distmult"].score) /\ res["distmult"].score.shape = ScoreShape
    /\ Called("complex") =>
          IsTensor(res["complex"].score) /\ res["complex"].score.shape = ScoreShape

\* C3: for every valid h, r, t distmult_interaction returns the tensor whose
\* cell (b, i, j, k) is the sum over d of h[b,i,d] * r[b,j,d] * t[b,k,d].
DistmultIsTrilinear ==
    Called("distmult") =>
        /\ IsTensor(res["distmult"].score)
        /\ \A c \in Cells : At(res["distmult"].score, c) = TrilinearCell(c)

\* What does hold of distmult_interaction: whenever it returns, the cells are
\* the trilinear sums, and it returns whenever all three inputs carry a
\* candidate axis.
DistmultIsTrilinearWhenReturned ==
    Called("distmult") =>
        /\ AllRank3 => IsTensor(res["distmult"].score)
        /\ IsTensor(res["distmult"].score) =>
              /\ res["distmult"].score.shape = ScoreShape
              /\ \A c \in Cells : At(res["distmult"].score, c) = TrilinearCell(c)

\* row b (row 0 of a batch of one) of a, candidate i, as a tensor of its own
RowOf(a, b, i) ==
    IF Rank(a) = 3 THEN Mk(<<1, 1, a.shape[3]>>, LAMBDA idx : Elem(a, b, i, idx[3]))
    ELSE Mk(<<1, a.shape[2]>>, LAMBDA idx : Elem(a, b, i, idx[2]))

HeadIsBroadcast == h.shape[1] = 1 /\ r.shape[1] > 1 /\ t.shape[1] > 1

\* C5: if h has batch size 1 and r and t batch size B > 1, both scorers
\* return a tensor with batch dimension B whose cell (b, i, j, k) is the
\* score of h[0,i], r[b,j], t[b,k].
BroadcastHead ==
    HeadIsBroadcast =>
        /\ Called("distmult") =>
              /\ IsTensor(res["distmult"].score)
              /\ res["distmult"].score.shape[1] = r.shape[1]
              /\ \A c \in Cells :
                    At(res["distmult"].score, c) =
                        At(distmult_interaction(RowOf(h, 0, c[2]), RowOf(r, c[1], c[3]),
                                                RowOf(t, c[1], c[4])), <<0, 0, 0, 0>>)
        /\ Called("complex") =>
              /\ IsTensor(res["complex"].score)
              /\ res["complex"].score.shape[1] = r.shape[1]
              /\ \A c \in Cells :
                    At(res["complex"].score, c) =
                        At(complex_interaction(RowOf(h, 0, c[2]), RowOf(r, c[1], c[3]),
                                               RowOf(t, c[1], c[4])), <<0, 0, 0, 0>>)

\* What does hold of the broadcast: the same, for inputs that all carry a
\* candidate axis.
BroadcastHeadRank3 == AllRank3 => BroadcastHead

\* C7: for h, r, t whose imaginary halves are all zero, complex_interaction
\* returns what distmult_interaction returns on the real halves.
ComplexReducesToDistmult ==
    (Called("complex") /\ Called("distmult_re")
        /\ ZeroImag(h) /\ ZeroImag(r) /\ ZeroImag(t)) =>
        res["complex"].score = res["distmult_re"].score

ComplexReducesToDistmultWitness ==
    /\ Called("complex") /\ Called("distmult_re")
    /\ ZeroImag(h) /\ ZeroImag(r) /\ ZeroImag(t)
    /\ IsTensor(res["complex"].score)
    /\ Cand(h) > 1 /\ Cand(r) > 1 /\ Cand(t) > 1 /\ BatchSize > 1
    /\ \E c1 \in Cells, c2 \in Cells :
          /\ At(res["complex"].score, c1) # 0
          /\ At(res["complex"].score, c2) # At(res["complex"].score, c1)

\* the result of one einsum call with its sign flipped
Negated(a) == IF IsError(a) THEN a ELSE Mk(a.shape, LAMBDA idx : 0 - At(a, idx))

TermsComparable ==
    /\ Called("complex") /\ Called("complex_negt")
    /\ DOMAIN res["complex_negt"].terms = DOMAIN res["complex"].terms

\* C8 as stated: negating Im(t) alone flips the sign of the third and the
\* fourth summed contraction and leaves the first two unchanged.
NegImTFlipsThirdAndFourth ==
    (Called("complex") /\ Called("complex_negt")) =>
        /\ TermsComparable
        /\ \A c \in DOMAIN res["complex"].terms :
              res["complex_negt"].terms[c] =
                  IF c \in {3, 4} THEN Negated(res["complex"].terms[c])
                  ELSE res["complex"].terms[c]

\* C8, amended: negating Im(t) alone flips the sign of the second and the
\* third summed contraction, (re,im,im) and (im,re,im), and leaves the first
\* and the fourth, (re,re,re) and (im,im,re), unchanged.
NegImTFlipsSecondAndThird ==
    (Called("complex") /\ Called("complex_negt")) =>
        /\ TermsComparable
        /\ \A c \in DOMAIN res["complex"].terms :
              res["complex_negt"].terms[c] =
                  IF c \in {2, 3} THEN Negated(res["complex"].terms[c])
                  ELSE res["complex"].terms[c]

NonZero(a) == IsTensor(a) /\ \E p \in DOMAIN a.data : a.data[p] # 0

NegImTFlipsSecondAndThirdWitness ==
    /\ Called("complex") /\ Called("complex_negt")
    /\ DOMAIN res["complex"].terms = 1..4
    /\ \A c \in 1..4 : NonZero(res["complex"].terms[c])
    /\ BatchSize > 1


(***************************************************************************)
(* Properties of the wrapped conve_interaction.                            *)
(***************************************************************************)
Returned == pc = "done" /\ "returns" \in DOMAIN outcome

Failed == pc = "done" /\ "raises" \in DOMAIN outcome

\* C4: when a failure is raised during a call, the caller receives a new
\* diagnostic RuntimeError whose cause is the original error if the
\* classifier was asked and called it a known driver fault, and the original
\* error object itself in every other case; the call is made once.
WrapperRelabelsKnownFaultsOnly ==
    (pc = "done" /\ pending # None) =>
        /\ Failed
        /\ attempts = 1
        /\ classified = [known |-> TRUE] <=>
              (pending.type = "RuntimeError" /\ is_cudnn_error(pending))
        /\ IF classified = [known |-> TRUE]
           THEN /\ outcome.raises.id # pending.id
                /\ outcome.raises.cause = pending
                /\ outcome.raises.type = "RuntimeError"
                /\ outcome.raises.msg # pending.msg
           ELSE outcome.raises = pending

WrapperRelabelsKnownFaultsOnlyWitness ==
    /\ Failed
    /\ classified = [known |-> TRUE]
    /\ outcome.raises.cause = pending
    /\ log # <<>>

\* the layers of lines 83-106 in the order of the source, without the batch
\* normalisations that are None
ExpectedLog ==
    SelectSeq(<<"bn0", "inp_drop", "conv1", "bn1", "activation", "feature_map_drop",
                "flatten", "fc", "hidden_drop", "bn2", "activation">>,
              LAMBDA l : l \in {"bn0", "bn1", "bn2"} => params[l])

IsPrefix(s1, s2) == Len(s1) <= Len(s2) /\ SubSeq(s2, 1, Len(s1)) = s1

LayersInOrderState ==
    /\ pc \in Running \cup {"return", "raised", "done"} => IsPrefix(log, ExpectedLog)
    /\ Returned => log = ExpectedLog

\* a batch normalisation that is None hands its input on unchanged, and one
\* that is given is applied
BatchNormStep ==
    \A l \in {"bn0", "bn1", "bn2"} :
        (pc = l /\ pc' \in Running) =>
            IF params[l] THEN log' = Append(log, l) ELSE x' = x /\ log' = log

\* C9: every call that returns has applied bn0 (if given), inp_drop, conv1,
\* bn1 (if given), activation, feature_map_drop, flatten, fc, hidden_drop,
\* bn2 (if given), activation, in this order and once each; a batch
\* normalisation that is None is skipped and its input handed on unchanged.
LayersInOrder == [](LayersInOrderState) /\ [][BatchNormStep]_vars

LayersInOrderWitness ==
    /\ Returned
    /\ params.bn0 /\ ~params.bn1 /\ params.bn2
    /\ log = <<"bn0", "inp_drop", "conv1", "activation", "feature_map_drop", "flatten",
               "fc", "hidden_drop", "bn2", "activation">>

\* The statements taken one by one return what the function as a whole does.
StepsAgree == Returned => outcome.returns = conve_interaction(args, params)

ConveBatch == Max({args.h.shape[1], args.r.shape[1], args.t.shape[1]})

ConveShape == <<ConveBatch, args.h.shape[2], args.r.shape[2], args.t.shape[2]>>

ConveCells ==
    {c \in (0..(ConveShape[1] - 1)) \X (0..(ConveShape[2] - 1)) \X (0..(ConveShape[3] - 1))
              \X (0..(ConveShape[4] - 1)) : TRUE}

\* C6: conve_interaction returns a tensor of shape (batch, num_heads,
\* num_relations, num_tails), batch the largest batch dimension of h, r, t,
\* and adding a constant c to every entry of t_bias adds c to every score.
ConveShapeAndBiasShift ==
    Returned =>
        /\ outcome.returns.shape = ConveShape
        /\ \A c \in 1..MaxShift :
              conve_interaction([args EXCEPT !.t_bias = Map(@, LAMBDA v : v + c)], params)
                  = Map(outcome.returns, LAMBDA v : v + c)

ConveShapeAndBiasShiftWitness ==
    /\ Returned
    /\ ConveBatch > 1 /\ args.t.shape[1] = 1
    /\ args.h.shape[2] > 1 /\ args.r.shape[2] = 1 /\ args.t.shape[2] > 1
    /\ outcome.returns.shape = ConveShape

\* the feature vector lines 83-106 extract from the image stacking h[b, i]
\* on top of r[b, j] (row 0 of a tensor whose batch size is 1)
FeatureVector(b, i, j) ==
    conve_features(conve_stack(RowOf(args.h, b, i), RowOf(args.r, b, j),
                               RowOf(args.t, 0, 0), params).x, params)

\* C10: with layers that act on each row on its own, the score at
\* (b, i, j, k) is the dot product of the feature vector of h[b, i] stacked
\* on r[b, j] with t[b, k], plus t_bias[b, k].
ConveIndexAlignment ==
    Returned =>
        \A b \in 0..(ConveShape[1] - 1), i \in 0..(ConveShape[2] - 1),
           j \in 0..(ConveShape[3] - 1) :
            \A f \in {FeatureVector(b, i, j)} : \A k \in 0..(ConveShape[4] - 1) :
                At(outcome.returns, <<b, i, j, k>>) =
                    SumTo(params.embedding_dim,
                          LAMBDA d : At(f, <<0, d>>) * Elem(args.t, b, k, d))
                      + At(args.t_bias, <<IF args.t_bias.shape[1] = 1 THEN 0 ELSE b, k>>)

ConveIndexAlignmentWitness ==
    /\ Returned
    /\ args.h.shape[1] = 1 /\ args.r.shape[1] > 1
    /\ args.h.shape[2] > 1 /\ args.r.shape[2] > 1 /\ args.t.shape[2] > 1
    /\ \E c1 \in ConveCells, c2 \in ConveCells :
          /\ c1[1] # c2[1] /\ c1[2] = c2[2] /\ c1[3] = c2[3] /\ c1[4] = c2[4]
          /\ At(outcome.returns, c1) # At(outcome.returns, c2)
    /\ \E c1 \in ConveCells, c2 \in ConveCells :
          /\ c1[1] = c2[1] /\ c1[2] # c2[2] /\ c1[3] = c2[3] /\ c1[4] = c2[4]
          /\ At(outcome.returns, c1) # At(outcome.returns, c2)

=============================================================================
